---- MODULE Spec2Model ----
(***************************************************************************)
(* Announcements endpoints of the High School Management System API        *)
(* (src/backend/routers/announcements.py): the announcement collection,    *)
(* the five request handlers and the ISO date-time parsing they rest on.   *)
(*                                                                         *)
(* Text is modelled as a sequence of lexical tokens [k, v, n]:             *)
(*   "ws"  white space                                                     *)
(*   "dt"  YYYY-MM-DDTHH:MM, v = the minute it names                       *)
(*   "ss"  :SS, v = the second within the minute                           *)
(*   "fr"  .ddd, n = number of digits, v = the fraction in ticks           *)
(*   "tz"  +HH:MM or -HH:MM, v = the offset in minutes                     *)
(*   "Z"   the letter Z                                                    *)
(*   "x"   any other text                                                  *)
(*   "txt" message text number v                                           *)
(* Instants are integers counted in ticks (the clock's resolution).        *)
(***************************************************************************)
EXTENDS Integers, Sequences, FiniteSets, TLC

VARIABLES
    store,    \* announcements_collection: ObjectId -> document
    nextId,   \* the next ObjectId insert_one assigns
    now,      \* the UTC clock, in ticks
    env,      \* the deployment: interpreter version and server time zone
    resp,     \* the last response of an atomic handler, with its request
    call      \* the update request in flight (stepwise specification)

vars == <<store, nextId, now, env, resp, call>>

----------------------------------------------------------------------------
(* Bounds of the model. *)

MaxNow == 3
MaxId == 2
TicksPerSec == 2
SecPerMin == 2

TicksPerMin == SecPerMin * TicksPerSec

----------------------------------------------------------------------------
(* Text values. *)

Tok(k, v, n) == [k |-> k, v |-> v, n |-> n]

\* Python's None, a value no text equals.
None == <<Tok("None", 0, 0)>>

Msg(i) == <<Tok("txt", i, 0)>>

\* "" and "not-a-date"
EmptyStr == <<>>
Junk == <<Tok("x", 0, 0)>>
\* "....T00:01": no seconds, no offset
NaiveNoSec == <<Tok("dt", 1, 0)>>
\* " ....T00:00:01Z ": padded, Z suffix
PaddedZ == <<Tok("ws", 0, 0), Tok("dt", 0, 0), Tok("ss", 1, 0), Tok("Z", 0, 0), Tok("ws", 0, 0)>>
\* "....T00:02:00.5+01:00": one fraction digit, explicit offset
FracOffset == <<Tok("dt", 2, 0), Tok("ss", 0, 0), Tok("fr", 1, 1), Tok("tz", 1, 0)>>
\* "....T00:01:01.500": milliseconds, no offset
Millis == <<Tok("dt", 1, 0), Tok("ss", 1, 0), Tok("fr", 1, 3)>>

Teachers == {"t1"}
Usernames == {"t1", "ghost"}

\* str(ObjectId) and a string that is no ObjectId ("abc")
IdStr(i) == [wf |-> TRUE, n |-> i]
BadIdStr == [wf |-> FALSE, n |-> 0]
IdStrings == {IdStr(i) : i \in 1..MaxId} \cup {BadIdStr}

----------------------------------------------------------------------------
(* _parse_iso_datetime and _to_utc_naive *)

RECURSIVE LStrip(_)
LStrip(s) == IF s # <<>> /\ Head(s).k = "ws" THEN LStrip(Tail(s)) ELSE s

RECURSIVE RStrip(_)
RStrip(s) ==
    IF s # <<>> /\ s[Len(s)].k = "ws" THEN RStrip(SubSeq(s, 1, Len(s) - 1)) ELSE s

Strip(s) == RStrip(LStrip(s))

EndsWithZ(s) == s # <<>> /\ s[Len(s)].k = "Z"

ZToOffset(s) ==
    IF EndsWithZ(s) THEN SubSeq(s, 1, Len(s) - 1) \o <<Tok("tz", 0, 0)>> ELSE s

ParseFail == [ok |-> FALSE, naive |-> 0, aware |-> FALSE, off |-> 0]

Kinds(s) == [i \in 1..Len(s) |-> s[i].k]

\* datetime.fromisoformat: date and HH:MM, then optional :SS, optional
\* fraction, optional offset.  Before Python 3.11 a fraction has 3 or 6
\* digits; from 3.11 on it has any number of digits.
FromIsoFormat(py311, s) ==
    LET aware == s # <<>> /\ s[Len(s)].k = "tz"
        body == IF aware THEN SubSeq(s, 1, Len(s) - 1) ELSE s
        shape == Kinds(body) \in {<<"dt">>, <<"dt", "ss">>, <<"dt", "ss", "fr">>}
        fracOk == Len(body) < 3 \/ py311 \/ body[3].n \in {3, 6}
    IN  IF shape /\ fracOk
        THEN [ok |-> TRUE,
              naive |-> body[1].v * TicksPerMin
                        + (IF Len(body) >= 2 THEN body[2].v * TicksPerSec ELSE 0)
                        + (IF Len(body) >= 3 THEN body[3].v ELSE 0),
              aware |-> aware,
              off |-> IF aware THEN s[Len(s)].v ELSE 0]
        ELSE ParseFail

\* ^(\d{4}-\d{2}-\d{2})T(\d{2}:\d{2})([+-]\d{2}:\d{2})?$
MatchMissingSeconds(v) == Kinds(v) \in {<<"dt">>, <<"dt", "tz">>}

AddSeconds(v) == <<v[1], Tok("ss", 0, 0)>> \o Tail(v)

\* ^(\d{4}-\d{2}-\d{2}T\d{2}:\d{2}:\d{2})\.\d+(.*)$
MatchMillis(v) == Len(v) >= 3 /\ SubSeq(Kinds(v), 1, 3) = <<"dt", "ss", "fr">>

DropFraction(v) == SubSeq(v, 1, 2) \o SubSeq(v, 4, Len(v))

_parse_iso_datetime(py311, value) ==
    IF value = None THEN ParseFail
    ELSE LET v == ZToOffset(Strip(value))
         IN  IF FromIsoFormat(py311, v).ok THEN FromIsoFormat(py311, v)
             ELSE IF MatchMissingSeconds(v) THEN FromIsoFormat(py311, AddSeconds(v))
             ELSE IF MatchMillis(v) THEN FromIsoFormat(py311, DropFraction(v))
             ELSE ParseFail

_to_utc_naive(utcoffset, dt) ==
    IF ~dt.aware
    THEN dt.naive - utcoffset * TicksPerMin
    ELSE dt.naive - dt.off * TicksPerMin

\* datetime.now().isoformat(): the server's local time, no offset
IsoFormatLocalNow(utcoffset, t) ==
    LET l == t + utcoffset * TicksPerMin
        fr == l % TicksPerSec
    IN  <<Tok("dt", l \div TicksPerMin, 0),
          Tok("ss", (l % TicksPerMin) \div TicksPerSec, 0)>>
        \o (IF fr = 0 THEN <<>> ELSE <<Tok("fr", fr, 6)>>)

\* Truth value of an Optional[str]
Truthy(s) == s # None /\ s # <<>>

----------------------------------------------------------------------------
(* The collections. *)

Doc(message, start_date, expiration_date, created_by, created_at) ==
    [message |-> message, start_date |-> start_date,
     expiration_date |-> expiration_date, created_by |-> created_by,
     created_at |-> created_at]

\* A document as a handler returns it: announcement["_id"] = str(announcement["_id"])
WithId(i, d) ==
    [_id |-> IdStr(i), message |-> d.message, start_date |-> d.start_date,
     expiration_date |-> d.expiration_date, created_by |-> d.created_by,
     created_at |-> d.created_at]

RECURSIVE Ascending(_)
Ascending(S) ==
    IF S = {} THEN <<>>
    ELSE LET m == CHOOSE x \in S : \A y \in S : x <= y
         IN  <<m>> \o Ascending(S \ {m})

\* list(announcements_collection.find({})), each _id made a string
FindAll(st) ==
    LET ids == Ascending(DOMAIN st)
    IN  [k \in 1..Len(ids) |-> WithId(ids[k], st[ids[k]])]

\* teachers_collection.find_one({"_id": username})
IsTeacher(username) == username \in Teachers

\* Records written before these handlers validated anything.
LegacyDocs ==
    { Doc(Msg(1), None, Junk, "t1", NaiveNoSec),
      Doc(Msg(1), Junk, NaiveNoSec, "t1", NaiveNoSec),
      Doc(Msg(1), NaiveNoSec, PaddedZ, "t1", NaiveNoSec),
      Doc(Msg(1), FracOffset, Millis, "t1", NaiveNoSec),
      Doc(Msg(1), None, None, "t1", NaiveNoSec) }

\* Deployments: the interpreter (fromisoformat changed in Python 3.11) and
\* the server's offset from UTC, in minutes.
Envs == {[py311 |-> FALSE, utcoffset |-> 0], [py311 |-> TRUE, utcoffset |-> 1]}

Response(op, req, status, detail, body) ==
    [op |-> op, req |-> req, status |-> status, detail |-> detail, body |-> body]

NoResponse == Response("none", <<>>, 0, "", <<>>)

Idle == [pc |-> "idle", req |-> <<>>, update_doc |-> <<>>,
         status |-> 0, detail |-> "", body |-> <<>>]

----------------------------------------------------------------------------
(* GET /announcements/active *)

\* Mutant: the expiry test written with <= instead of <.
IsAppendedStrict(e, t, d) ==
    LET expiration_date == _parse_iso_datetime(e.py311, d.expiration_date)
        start_date == _parse_iso_datetime(e.py311, d.start_date)
    IN  /\ expiration_date.ok
        /\ ~(_to_utc_naive(e.utcoffset, expiration_date) <= t)
        /\ \/ ~Truthy(d.start_date)
           \/ /\ start_date.ok
              /\ ~(_to_utc_naive(e.utcoffset, start_date) > t)

\* The body of the loop of get_active_announcements: TRUE when the record
\* is appended to active_announcements.
IsAppended(e, t, d) ==
    LET expiration_date == _parse_iso_datetime(e.py311, d.expiration_date)
        start_date == _parse_iso_datetime(e.py311, d.start_date)
    IN  /\ expiration_date.ok
        /\ ~(_to_utc_naive(e.utcoffset, expiration_date) < t)
        /\ \/ ~Truthy(d.start_date)
           \/ /\ start_date.ok
              /\ ~(_to_utc_naive(e.utcoffset, start_date) > t)

get_active_announcements ==
    LET Active(d) == IsAppended(env, now, d)
    IN  /\ resp.op = "none"
        /\ resp' = Response("list_active", <<>>, 200, "",
                            SelectSeq(FindAll(store), Active))
        /\ UNCHANGED <<store, nextId, now, env, call>>

(* GET /announcements *)

\* Mutant: the listing reuses the active filter.
get_all_active_only(username) ==
    LET Active(d) == IsAppended(env, now, d)
    IN  /\ resp.op = "none"
        /\ resp' = IF ~IsTeacher(username)
                   THEN Response("list_all", [username |-> username], 401,
                                 "Unauthorized", <<>>)
                   ELSE Response("list_all", [username |-> username], 200, "",
                                 SelectSeq(FindAll(store), Active))
        /\ UNCHANGED <<store, nextId, now, env, call>>

get_all_announcements(username) ==
    /\ resp.op = "none"
    /\ resp' = IF ~IsTeacher(username)
               THEN Response("list_all", [username |-> username], 401,
                             "Unauthorized", <<>>)
               ELSE Response("list_all", [username |-> username], 200, "",
                             FindAll(store))
    /\ UNCHANGED <<store, nextId, now, env, call>>

----------------------------------------------------------------------------
(* POST /announcements *)

\* The validation of a new expiration date: parse, normalise, compare.
ExpirationAccepted(e, t, s) ==
    LET expiration_date == _parse_iso_datetime(e.py311, s)
    IN  /\ expiration_date.ok
        /\ ~(_to_utc_naive(e.utcoffset, expiration_date) <= t)

\* The validation create_announcement applies to start_date.
CreateStartAccepted(e, s) ==
    Truthy(s) => _parse_iso_datetime(e.py311, s).ok

CreateStatus(e, t, req) ==
    IF ~IsTeacher(req.created_by) THEN 401
    ELSE IF ~ExpirationAccepted(e, t, req.expiration_date) THEN 400
    ELSE IF ~CreateStartAccepted(e, req.start_date) THEN 400
    ELSE 200

CreateDetail(e, t, req) ==
    IF ~IsTeacher(req.created_by) THEN "Unauthorized"
    ELSE IF ~ExpirationAccepted(e, t, req.expiration_date)
         THEN "Invalid expiration date format"
    ELSE IF ~CreateStartAccepted(e, req.start_date)
         THEN "Invalid start date format"
    ELSE ""

create_announcement(req) ==
    LET status == CreateStatus(env, now, req)
        announcement_doc ==
            Doc(req.message, req.start_date, req.expiration_date,
                req.created_by, IsoFormatLocalNow(env.utcoffset, now))
    IN  /\ resp.op = "none"
        /\ nextId <= MaxId
        /\ IF status = 200
           THEN /\ store' = [i \in DOMAIN store \cup {nextId} |->
                               IF i = nextId THEN announcement_doc ELSE store[i]]
                /\ nextId' = nextId + 1
                /\ resp' = Response("create", req, 200, "",
                                    WithId(nextId, announcement_doc))
           ELSE /\ resp' = Response("create", req, status,
                                    CreateDetail(env, now, req), <<>>)
                /\ UNCHANGED <<store, nextId>>
        /\ UNCHANGED <<now, env, call>>

----------------------------------------------------------------------------
(* PUT /announcements/{announcement_id} *)

UpdateFields == {"message", "start_date", "expiration_date"}

\* announcements_collection.find_one({"_id": ObjectId(announcement_id)})
\* finds a record: ObjectId() raises on a malformed string.
Found(st, announcement_id) ==
    announcement_id.wf /\ announcement_id.n \in DOMAIN st

\* Mutant: start_date tested for truth, as create_announcement does.
UpdateStartTruthy(e, s) ==
    Truthy(s) => _parse_iso_datetime(e.py311, s).ok

\* The checks made while update_doc is built.
UpdateStartAccepted(e, s) ==
    s # None => _parse_iso_datetime(e.py311, s).ok

UpdateExpirationAccepted(e, t, s) ==
    s # None => ExpirationAccepted(e, t, s)

BuildStatus(e, t, req) ==
    IF ~UpdateStartAccepted(e, req.start_date) THEN 400
    ELSE IF ~UpdateExpirationAccepted(e, t, req.expiration_date) THEN 400
    ELSE 200

BuildDetail(e, t, req) ==
    IF ~UpdateStartAccepted(e, req.start_date) THEN "Invalid start date format"
    ELSE IF ~UpdateExpirationAccepted(e, t, req.expiration_date)
         THEN "Invalid expiration date format"
    ELSE ""

UpdateDoc(req) == [f \in {g \in UpdateFields : req[g] # None} |-> req[f]]

\* Mutant: every field of the request is written, the omitted ones as None.
SetAllFields(st, i, update_doc) ==
    IF i \in DOMAIN st /\ DOMAIN update_doc # {}
    THEN [st EXCEPT ![i] = [f \in DOMAIN st[i] |->
                              IF f \in DOMAIN update_doc THEN update_doc[f]
                              ELSE IF f \in UpdateFields THEN None
                              ELSE st[i][f]]]
    ELSE st

\* update_one({"_id": ...}, {"$set": update_doc}): no record matched, no change
SetFields(st, i, update_doc) ==
    IF i \in DOMAIN st /\ DOMAIN update_doc # {}
    THEN [st EXCEPT ![i] = [f \in DOMAIN st[i] |->
                              IF f \in DOMAIN update_doc THEN update_doc[f]
                              ELSE st[i][f]]]
    ELSE st

\* Mutant: the fields are validated before the record is looked up.
UpdateStatusValidateFirst(e, t, st, req) ==
    IF ~IsTeacher(req.username) THEN 401
    ELSE IF BuildStatus(e, t, req) # 200 THEN 400
    ELSE IF ~Found(st, req.announcement_id) THEN 404
    ELSE 200

UpdateStatus(e, t, st, req) ==
    IF ~IsTeacher(req.username) THEN 401
    ELSE IF ~Found(st, req.announcement_id) THEN 404
    ELSE BuildStatus(e, t, req)

UpdateDetail(e, t, st, req) ==
    IF ~IsTeacher(req.username) THEN "Unauthorized"
    ELSE IF ~Found(st, req.announcement_id) THEN "Announcement not found"
    ELSE BuildDetail(e, t, req)

update_announcement(req) ==
    LET status == UpdateStatus(env, now, store, req)
        i == req.announcement_id.n
    IN  /\ resp.op = "none"
        /\ IF status = 200
           THEN /\ store' = SetFields(store, i, UpdateDoc(req))
                /\ resp' = Response("update", req, 200, "", WithId(i, store'[i]))
           ELSE /\ resp' = Response("update", req, status,
                                    UpdateDetail(env, now, store, req), <<>>)
                /\ UNCHANGED store
        /\ UNCHANGED <<nextId, now, env, call>>

----------------------------------------------------------------------------
(* DELETE /announcements/{announcement_id} *)

DeleteStatus(st, req) ==
    IF ~IsTeacher(req.username) THEN 401
    ELSE IF ~Found(st, req.announcement_id) THEN 404
    ELSE 200

\* Mutant: the filter matches every record.
DeleteMany(st, i) == [j \in {} |-> st[j]]

\* delete_one({"_id": ObjectId(announcement_id)})
DeleteOne(st, i) == [j \in DOMAIN st \ {i} |-> st[j]]

delete_announcement(req) ==
    LET status == DeleteStatus(store, req)
    IN  /\ resp.op = "none"
        /\ IF status = 200
           THEN /\ store' = DeleteOne(store, req.announcement_id.n)
                /\ resp' = Response("delete", req, 200, "",
                                    [message |-> "Announcement deleted successfully"])
           ELSE /\ resp' = Response("delete", req, status,
                                    IF status = 401 THEN "Unauthorized"
                                    ELSE "Announcement not found", <<>>)
                /\ UNCHANGED store
        /\ UNCHANGED <<nextId, now, env, call>>

----------------------------------------------------------------------------
(* PUT /announcements/{announcement_id}, one store access at a time: the    *)
(* handler runs on a worker thread beside the other requests.               *)

InFlight(pc, req, update_doc) ==
    [pc |-> pc, req |-> req, update_doc |-> update_doc,
     status |-> 0, detail |-> "", body |-> <<>>]

Returned(req, status, detail, body) ==
    [pc |-> "done", req |-> req, update_doc |-> <<>>,
     status |-> status, detail |-> detail, body |-> body]

\* lines 181-183: the teacher lookup
UpdateAuth(req) ==
    /\ call.pc = "idle"
    /\ call' = IF ~IsTeacher(req.username)
               THEN Returned(req, 401, "Unauthorized", <<>>)
               ELSE InFlight("find", req, <<>>)
    /\ UNCHANGED <<store, nextId, now, env, resp>>

\* lines 188-194: existing_announcement
UpdateFind ==
    /\ call.pc = "find"
    /\ call' = IF ~Found(store, call.req.announcement_id)
               THEN Returned(call.req, 404, "Announcement not found", <<>>)
               ELSE InFlight("build", call.req, <<>>)
    /\ UNCHANGED <<store, nextId, now, env, resp>>

\* lines 197-215: update_doc
UpdateBuild ==
    /\ call.pc = "build"
    /\ call' = IF BuildStatus(env, now, call.req) # 200
               THEN Returned(call.req, 400, BuildDetail(env, now, call.req), <<>>)
               ELSE InFlight("write", call.req, UpdateDoc(call.req))
    /\ UNCHANGED <<store, nextId, now, env, resp>>

\* lines 217-221: update_one
UpdateWrite ==
    /\ call.pc = "write"
    /\ store' = SetFields(store, call.req.announcement_id.n, call.update_doc)
    /\ call' = InFlight("reread", call.req, call.update_doc)
    /\ UNCHANGED <<nextId, now, env, resp>>

\* lines 224-227: updated_announcement; subscripting None raises TypeError,
\* which no handler catches
UpdateReread ==
    LET i == call.req.announcement_id.n
    IN  /\ call.pc = "reread"
        /\ call' = IF i \in DOMAIN store
                   THEN Returned(call.req, 200, "", WithId(i, store[i]))
                   ELSE Returned(call.req, 500, "Internal Server Error", <<>>)
        /\ UNCHANGED <<store, nextId, now, env, resp>>

----------------------------------------------------------------------------
(* The clients and the clock. *)

\* The response reaches the client.
Deliver ==
    /\ resp.op # "none"
    /\ resp' = NoResponse
    /\ UNCHANGED <<store, nextId, now, env, call>>

DeliverUpdate ==
    /\ call.pc = "done"
    /\ call' = Idle
    /\ UNCHANGED <<store, nextId, now, env, resp>>

Tick ==
    /\ resp.op = "none"
    /\ now < MaxNow
    /\ now' = now + 1
    /\ UNCHANGED <<store, nextId, env, resp, call>>

----------------------------------------------------------------------------
(* Requests. *)

CreateRequests ==
    [message : {Msg(1)},
     start_date : {None, EmptyStr, Junk, PaddedZ, FracOffset},
     expiration_date : {EmptyStr, Junk, PaddedZ, FracOffset},
     created_by : Usernames]

UpdateRequests ==
    [announcement_id : IdStrings, username : Usernames,
     message : {None, Msg(2)},
     start_date : {None, EmptyStr, FracOffset},
     expiration_date : {None, Junk, PaddedZ}]

DeleteRequests == [announcement_id : IdStrings, username : Usernames]

EmptyStore == [i \in {} |-> None]

Init ==
    /\ store \in {EmptyStore} \cup {[i \in {1} |-> d] : d \in LegacyDocs}
    /\ nextId = Cardinality(DOMAIN store) + 1
    /\ now = 0
    /\ env \in Envs
    /\ resp = NoResponse
    /\ call = Idle

\* One request at a time, each handler one atomic step against the store.
Next ==
    \/ get_active_announcements
    \/ \E username \in Usernames : get_all_announcements(username)
    \/ \E req \in CreateRequests : create_announcement(req)
    \/ \E req \in UpdateRequests : update_announcement(req)
    \/ \E req \in DeleteRequests : delete_announcement(req)
    \/ Deliver
    \/ Tick

Spec == Init /\ [][Next]_vars

\* The same handlers over a collection that starts empty.
InitFresh ==
    /\ store = EmptyStore
    /\ nextId = 1
    /\ now = 0
    /\ env \in Envs
    /\ resp = NoResponse
    /\ call = Idle

SpecFresh == InitFresh /\ [][Next]_vars

\* An update in steps beside the other writers.
StepUpdateRequests ==
    [announcement_id : IdStrings, username : Usernames,
     message : {None, Msg(2)}, start_date : {None},
     expiration_date : {None, Junk}]

StepCreateRequests ==
    [message : {Msg(1)}, start_date : {None},
     expiration_date : {PaddedZ, FracOffset}, created_by : Usernames]

NextSteps ==
    \/ \E req \in StepUpdateRequests : UpdateAuth(req)
    \/ UpdateFind
    \/ UpdateBuild
    \/ UpdateWrite
    \/ UpdateReread
    \/ DeliverUpdate
    \/ \E req \in StepCreateRequests : create_announcement(req)
    \/ \E req \in DeleteRequests : delete_announcement(req)
    \/ Deliver
    \/ Tick

SpecSteps == Init /\ [][NextSteps]_vars

----------------------------------------------------------------------------
(* The properties. *)

\* A date field as the properties read it.
Parses(s) == _parse_iso_datetime(env.py311, s).ok
Instant(s) == _to_utc_naive(env.utcoffset, _parse_iso_datetime(env.py311, s))
Absent(s) == s = None

\* A handler step: a request is answered.
Answers(op) == resp.op = "none" /\ resp'.op = op

InSeq(x, q) == \E k \in 1..Len(q) : q[k] = x

\* The active window as the specification words it.
ActiveWindow(d) ==
    /\ Parses(d.expiration_date)
    /\ Instant(d.expiration_date) >= now
    /\ \/ Absent(d.start_date)
       \/ Parses(d.start_date) /\ Instant(d.start_date) <= now

\* C1: list_active returns exactly the stored announcements whose
\* expiration_date parses and is >= now and whose start_date is absent or
\* parses and is <= now; a record with a date that does not parse is left
\* out, and list_active never fails.
C1_ListActiveIsActiveWindow ==
    resp.op = "list_active" =>
        /\ resp.status = 200
        /\ resp.body = SelectSeq(FindAll(store), ActiveWindow)

\* C2 as stated: an announcement whose expiration equals now is not returned
\* by list_active.
C2_InactiveAtExpiration ==
    resp.op = "list_active" =>
        \A k \in 1..Len(FindAll(store)) :
            LET d == FindAll(store)[k]
            IN  Parses(d.expiration_date) /\ Instant(d.expiration_date) = now
                    => ~InSeq(d, resp.body)

\* C2 amended: an announcement whose expiration equals now is returned by
\* list_active when its start_date is absent or parses and is <= now; one
\* whose expiration is before now is not returned.
C2_ActiveAtExpiration ==
    resp.op = "list_active" =>
        \A k \in 1..Len(FindAll(store)) :
            LET d == FindAll(store)[k]
            IN  Parses(d.expiration_date) =>
                    /\ ( /\ Instant(d.expiration_date) = now
                         /\ \/ Absent(d.start_date)
                            \/ Parses(d.start_date) /\ Instant(d.start_date) <= now )
                       => InSeq(d, resp.body)
                    /\ Instant(d.expiration_date) < now => ~InSeq(d, resp.body)

\* C2, reached: list_active returns a record at the instant of its
\* expiration.
C2_Witness ==
    /\ resp.op = "list_active"
    /\ \E k \in 1..Len(resp.body) :
           /\ Instant(resp.body[k].expiration_date) = now
           /\ Parses(resp.body[k].start_date)

\* The date checks of create as the specification words them.
CreateValid(req) ==
    /\ Parses(req.expiration_date)
    /\ Instant(req.expiration_date) > now
    /\ Absent(req.start_date) \/ Parses(req.start_date)

\* C3: create persists a new record iff created_by is a known teacher,
\* expiration_date parses and is strictly after now, and start_date is absent
\* or parses; Unauthorized for an unknown created_by, InvalidInput for a
\* failed date check, and the store unchanged whenever it fails.
C3_CreateIffValid ==
    [][Answers("create") =>
        LET req == resp'.req
        IN  /\ (resp'.status = 200) <=> (IsTeacher(req.created_by) /\ CreateValid(req))
            /\ resp'.status = 200 =>
                   /\ DOMAIN store' = DOMAIN store \cup {nextId}
                   /\ nextId \notin DOMAIN store
                   /\ \A i \in DOMAIN store : store'[i] = store[i]
            /\ ~IsTeacher(req.created_by) => resp'.status = 401
            /\ IsTeacher(req.created_by) /\ ~CreateValid(req) => resp'.status = 400
            /\ resp'.status # 200 => store' = store]_vars

\* A provided field of an update request fails validation.
SomeFieldInvalid(req) ==
    \/ ~Absent(req.start_date) /\ ~Parses(req.start_date)
    \/ ~Absent(req.expiration_date) /\ ~Parses(req.expiration_date)
    \/ /\ ~Absent(req.expiration_date)
       /\ Parses(req.expiration_date)
       /\ Instant(req.expiration_date) <= now

\* C4: for a known teacher and an existing record, an update in which a
\* provided field fails validation fails with InvalidInput and writes
\* nothing, even when other fields of the request are valid.
C4_InvalidUpdateWritesNothing ==
    [][( /\ Answers("update")
         /\ IsTeacher(resp'.req.username)
         /\ Found(store, resp'.req.announcement_id)
         /\ SomeFieldInvalid(resp'.req) )
        => resp'.status = 400 /\ store' = store]_vars

\* C4, reached: an update with a valid message and an expiration_date that
\* parses but is not after now is refused.
C4_Witness ==
    /\ resp.op = "update"
    /\ resp.status = 400
    /\ IsTeacher(resp.req.username)
    /\ Found(store, resp.req.announcement_id)
    /\ ~Absent(resp.req.message)
    /\ Absent(resp.req.start_date)
    /\ Parses(resp.req.expiration_date)

\* C5: after a successful update every provided field holds the provided
\* value, every other field and every other record holds its previous
\* value, and the returned record is the stored one; with no field provided
\* the store is unchanged.
C5_UpdateMerges ==
    [][Answers("update") /\ resp'.status = 200 =>
        LET req == resp'.req
            i == req.announcement_id.n
        IN  /\ DOMAIN store' = DOMAIN store
            /\ i \in DOMAIN store
            /\ \A j \in DOMAIN store \ {i} : store'[j] = store[j]
            /\ \A f \in UpdateFields :
                   store'[i][f] = IF Absent(req[f]) THEN store[i][f] ELSE req[f]
            /\ store'[i].created_by = store[i].created_by
            /\ store'[i].created_at = store[i].created_at
            /\ resp'.body = WithId(i, store'[i])
            /\ (\A f \in UpdateFields : Absent(req[f])) => store' = store]_vars

\* C5, reached: an update that provides message and omits expiration_date
\* succeeds on one of two stored records.
C5_Witness ==
    /\ resp.op = "update"
    /\ resp.status = 200
    /\ ~Absent(resp.req.message)
    /\ Absent(resp.req.expiration_date)
    /\ store[resp.req.announcement_id.n].message = resp.req.message
    /\ Cardinality(DOMAIN store) > 1

\* Identifier i was assigned and its record is gone: only a delete does that.
Removed(i) == i < nextId /\ i \notin DOMAIN store

\* C6: delete by a known teacher of an id that resolves to no record fails
\* with NotFound and changes nothing; delete of an existing id removes that
\* record and no other; an id once removed stays removed, is in no later
\* listing, and a later update or delete of it fails with NotFound.
C6_DeleteIsPermanent ==
    [][/\ Answers("delete") /\ IsTeacher(resp'.req.username) =>
           LET id == resp'.req.announcement_id
           IN  IF id.wf /\ id.n \in DOMAIN store
               THEN /\ resp'.status = 200
                    /\ DOMAIN store' = DOMAIN store \ {id.n}
                    /\ \A j \in DOMAIN store' : store'[j] = store[j]
               ELSE resp'.status = 404 /\ store' = store
       /\ \A i \in 1..MaxId : Removed(i) =>
              /\ i \notin DOMAIN store'
              /\ resp'.op \in {"list_all", "list_active"} =>
                     \A k \in 1..Len(resp'.body) : resp'.body[k]._id # IdStr(i)
              /\ ( /\ resp'.op \in {"update", "delete"}
                   /\ resp'.req.announcement_id = IdStr(i)
                   /\ IsTeacher(resp'.req.username) )
                 => resp'.status = 404]_vars

\* C6, reached: a delete removes one record and another remains.
C6_Witness ==
    /\ resp.op = "delete"
    /\ resp.status = 200
    /\ store # EmptyStore
    /\ Removed(resp.req.announcement_id.n)

\* C7: list_all fails with Unauthorized for an unknown username and
\* otherwise returns every stored announcement, whatever its dates; it does
\* not change the store.
C7_ListAllUnfiltered ==
    [][Answers("list_all") =>
        /\ store' = store
        /\ IF IsTeacher(resp'.req.username)
           THEN /\ resp'.status = 200
                /\ Len(resp'.body) = Cardinality(DOMAIN store)
                /\ \A i \in DOMAIN store : InSeq(WithId(i, store[i]), resp'.body)
           ELSE resp'.status = 401 /\ resp'.body = <<>>]_vars

\* C7, reached: list_all returns a record whose expiration_date does not
\* parse and an expired record.
C7_Witness ==
    /\ resp.op = "list_all"
    /\ resp.status = 200
    /\ \E k \in 1..Len(resp.body) : ~Parses(resp.body[k].expiration_date)
    /\ \E k \in 1..Len(resp.body) :
           /\ Parses(resp.body[k].expiration_date)
           /\ Instant(resp.body[k].expiration_date) < now

\* C8: in a collection that starts with no malformed record, every stored
\* announcement has an expiration_date that parses and a start_date that is
\* absent or parses.
C8_NoCorruptDataWritten ==
    \A i \in DOMAIN store :
        /\ Parses(store[i].expiration_date)
        /\ Absent(store[i].start_date) \/ Parses(store[i].start_date)

\* C9: an update beside a delete of the same id ends by returning a record
\* or by failing with Unauthorized, NotFound or InvalidInput.
C9_UpdateEndsCategorized ==
    call.pc = "done" => call.status \in {200, 401, 404, 400}

\* C10: update answers Unauthorized to an unknown username whatever the id
\* and fields; with a known teacher, NotFound to an id that resolves to no
\* record even when a date field is invalid; InvalidInput only when the
\* requester is known and the record exists.
C10_UpdateCheckOrder ==
    [][Answers("update") =>
        LET req == resp'.req
        IN  /\ ~IsTeacher(req.username) => resp'.status = 401
            /\ IsTeacher(req.username) /\ ~Found(store, req.announcement_id)
                   => resp'.status = 404
            /\ resp'.status = 400
                   => IsTeacher(req.username) /\ Found(store, req.announcement_id)]_vars

\* C10, reached: a known teacher's update of an id that resolves to nothing,
\* with an invalid date field, is answered NotFound.
C10_Witness ==
    /\ resp.op = "update"
    /\ resp.status = 404
    /\ IsTeacher(resp.req.username)
    /\ SomeFieldInvalid(resp.req)

====
